---- MODULE Spec2Model ----
(***************************************************************************)
(* Model of fennel's data pipeline, src/src/fennel/app/core.py: the        *)
(* coordinate utilities wgs84_to_web_mercator, wrap2360 and cart2sph, and  *)
(* MyTrameApp._load_data with the two folder slots.                        *)
(*                                                                         *)
(* Number representation.  The program computes in float64; the model      *)
(* computes in integers:                                                   *)
(*   - degree-valued quantities (lon, lat, strike, dip) are held in        *)
(*     hundredths of a degree: Deg(37) = 3700;                             *)
(*   - radian-valued quantities (azimuth, elevation, dip_dir, the legs of  *)
(*     a triangle) are held in units of pi/36000 rad, so that deg2rad      *)
(*     doubles the number and rad2deg halves it;                           *)
(*   - depths are whole kilometres, as in the dep1..dep3 columns;          *)
(*   - sines and cosines are held in thousandths;                          *)
(*   - planar coordinates are metres.                                      *)
(* float64 addition rounds its result to the grid of the result's binade.  *)
(* FloatRound keeps the one grid change that lies inside the range of a    *)
(* longitude: results of magnitude 256 degrees and more (the binade of     *)
(* 360) are held to a grid twice as coarse as smaller ones, with ties to   *)
(* the even significand, as -1e-20 + 360.0 = 360.0 is in float64.          *)
(***************************************************************************)
EXTENDS Integers, Sequences, FiniteSets, TLC

VARIABLES
    folder_path,    \* state.folder_1_path, state.folder_2_path
    folder_data,    \* self.folder_1_data, self.folder_2_data
    pc,             \* position of the control thread inside _load_data
    frame,          \* the locals of the running _load_data call
    outcome,        \* how the last _load_data call ended
    seen,           \* what a reader of slot 1's reference last observed
    snapshot,       \* folder_data as it was when the running load started
    arg,            \* input of the utility function under check
    res             \* its result

vars == <<folder_path, folder_data, pc, frame, outcome, seen, snapshot, arg, res>>

-----------------------------------------------------------------------------
(* Arithmetic helpers *)

Abs(v) == IF v < 0 THEN -v ELSE v

Sign(v) == IF v < 0 THEN -1 ELSE IF v > 0 THEN 1 ELSE 0

\* v / d rounded to the nearest integer, halves away from zero (d > 0)
DivRound(v, d) == Sign(v) * ((2 * Abs(v) + d) \div (2 * d))

RECURSIVE SqrtSearch(_, _, _)
SqrtSearch(v, lo, hi) ==
    IF lo >= hi THEN lo
    ELSE LET mid == (lo + hi + 1) \div 2
         IN  IF mid * mid <= v THEN SqrtSearch(v, mid, hi)
             ELSE SqrtSearch(v, lo, mid - 1)

\* np.sqrt in tenths: the largest s with s*s <= 100*v
sqrt10(v) == SqrtSearch(100 * v, 0, 46340)

RECURSIVE SumSeq(_)
SumSeq(s) == IF s = <<>> THEN 0 ELSE Head(s) + SumSeq(Tail(s))

\* whole degrees in the model's unit
Deg(d) == 100 * d

\* np.deg2rad, np.rad2deg
deg2rad(x) == 2 * x

rad2deg(r) == DivRound(r, 2)

\* float64 rounding of a degree-valued sum (see the header)
FloatRound(v) ==
    IF Abs(v) < Deg(256) \/ v % 2 = 0 THEN v
    ELSE IF (v + 1) % 4 = 0 THEN v + 1 ELSE v - 1

FloatAdd(a, b) == FloatRound(a + b)

\* arctan of n/d for 0 <= n <= d, d > 0, in radian units (0 .. 9000):
\* atan(t) ~ (pi/4) t + t (1 - t) (0.2447 + 0.0663 t), |error| < 0.09 degree
AtanRatio(n, d) ==
    LET T == (1000 * n) \div d
        w == 2804 + (758 * T) \div 1000
    IN  9 * T + (T * (1000 - T) * w) \div 1000000

\* np.arctan2(y, x) in radian units, in (-36000, 36000]; arctan2(0, 0) = 0
arctan2(y, x) ==
    LET ay == Abs(y)
        ax == Abs(x)
        first == IF ax = 0 /\ ay = 0 THEN 0
                 ELSE IF ax >= ay THEN AtanRatio(ay, ax)
                 ELSE 18000 - AtanRatio(ax, ay)
        upper == IF x >= 0 THEN first ELSE 36000 - first
    IN  IF y >= 0 THEN upper ELSE -upper

\* np.sin of an angle in radian units, in thousandths (Bhaskara's formula
\* 4 t (180 - t) / (40500 - t (180 - t)) on the half turn, t in degrees)
sin(a) ==
    LET m == a % 72000
        h == IF m >= 36000 THEN m - 36000 ELSE m
        q == (h * (36000 - h)) \div 4000
        s == (4000 * q) \div (405000 - q)
    IN  IF m >= 36000 THEN -s ELSE s

cos(a) == sin(a + 18000)

-----------------------------------------------------------------------------
(* Constants, core.py lines 30-32 *)

KM2M == 1000

RADIUS_EARTH == 6371000

\* KM2M * dep / RADIUS_EARTH, a pure number of the size of an angle in
\* radians, in radian units (11459 units to 1)
DepthFraction(dep) == DivRound(KM2M * dep * 11459, RADIUS_EARTH)

\* the 1 of "1 + KM2M * dep / RADIUS_EARTH", in radian units
One == DivRound(36000 * 113, 355)

-----------------------------------------------------------------------------
(* Arrays are sequences; a table (DataFrame) is a record of columns *)

Map1(Op(_), s) == [k \in DOMAIN s |-> Op(s[k])]

RECURSIVE SortedSeq(_)
SortedSeq(S) ==
    IF S = {} THEN <<>>
    ELSE LET m == CHOOSE v \in S : \A w \in S : v <= w
         IN  <<m>> \o SortedSeq(S \ {m})

\* np.unique: the distinct values, ascending
unique(s) == SortedSeq({s[k] : k \in DOMAIN s})

\* s[mask] for a boolean mask
RECURSIVE Masked(_, _)
Masked(s, mask) ==
    IF s = <<>> THEN <<>>
    ELSE (IF Head(mask) THEN <<Head(s)>> ELSE <<>>) \o Masked(Tail(s), Tail(mask))

\* np.mean(xs) > t, decided on the exact mean
MeanExceeds(xs, t) == SumSeq(xs) > t * Len(xs)

\* np.mean, rounded to the unit of xs
mean(xs) == DivRound(SumSeq(xs), Len(xs))

-----------------------------------------------------------------------------
(* Coordinate transformation utilities, core.py lines 39-68 *)

\* EARTH_RADIUS * np.deg2rad(lon) in metres: 6378137 * pi / 36000 = 556.597
\* metres to the radian unit
MercatorX(lon) ==
    LET r == deg2rad(lon) IN 556 * r + DivRound(597 * r, 1000)

\* EARTH_RADIUS * ln(tan(pi/4 + phi/2)) at phi = 0, 15, .., 90 degrees, in
\* metres (float64 gives a finite value at 90), and the slope between two
\* neighbours in metres to the hundredth of a degree
MercatorKnot ==
    <<0, 1689200, 3503550, 5621521, 8399738, 12932243, 238107693>>

MercatorSlope(k) == (MercatorKnot[k + 1] - MercatorKnot[k]) \div 1500

\* EARTH_RADIUS * np.log(np.tan(pi/4 + np.deg2rad(lat)/2)) for |lat| < 270
\* degrees: np.tan is negative beyond a pole and np.log of it is nan (a
\* warning, no exception); at -90 np.tan is 0 and np.log is -inf
MercatorY(lat) ==
    IF Abs(lat) > Deg(90) THEN <<"nan", 0>>
    ELSE IF lat = -Deg(90) THEN <<"-inf", 0>>
    ELSE LET a == Abs(lat)
             k == IF a = Deg(90) THEN 6 ELSE a \div 1500 + 1
             y == IF a = Deg(90) THEN MercatorKnot[7]
                  ELSE MercatorKnot[k] + (a - 1500 * (k - 1)) * MercatorSlope(k)
         IN  <<"num", Sign(lat) * y>>

wgs84_to_web_mercator(lon, lat) ==
    [x |-> Map1(MercatorX, lon), y |-> Map1(MercatorY, lat)]

\* Wrap1 without its mask: 360 added to every value
Wrap1Always(v) == FloatAdd(v, Deg(360))

\* Wrap1 with the mask lon <= 0
Wrap1LessEq(v) == IF v <= 0 THEN FloatAdd(v, Deg(360)) ELSE v

Wrap1(v) == IF v < 0 THEN FloatAdd(v, Deg(360)) ELSE v

wrap2360(lon) == Map1(Wrap1, lon)

cart2sph(x, y, z) ==
    [azimuth   |-> arctan2(y, x),
     elevation |-> arctan2(10 * z, sqrt10(x * x + y * y)),
     r         |-> sqrt10(x * x + y * y + z * z)]

-----------------------------------------------------------------------------
(* _load_data, the mesh part: core.py lines 191-256.                       *)
(* lon_mesh[v], lat_mesh[v], dep_mesh[v] are lonv_mesh, latv_mesh and      *)
(* depv_mesh for the vertex v = 1, 2, 3.                                   *)

StationColumns == {"lon", "lat", "model_east_vel_residual", "model_north_vel_residual"}

SegmentColumns == {"lon1", "lat1", "lon2", "lat2"}

MeshColumns ==
    {"lon1", "lat1", "dep1", "lon2", "lat2", "dep2", "lon3", "lat3", "dep3", "mesh_idx"}

\* lines 192-201: the lon arrays are copies, the lat and dep arrays are the
\* table's own columns (.values without .copy())
MeshArrays(meshes) ==
    [lon_mesh |-> <<meshes.lon1, meshes.lon2, meshes.lon3>>,
     lat_mesh |-> <<meshes.lat1, meshes.lat2, meshes.lat3>>,
     dep_mesh |-> <<meshes.dep1, meshes.dep2, meshes.dep3>>,
     mesh_idx |-> meshes.mesh_idx]

\* lines 204-206: lon_mesh[lon_mesh < 0] += 360
WrapMeshLon(lon) == [k \in DOMAIN lon |-> IF lon[k] < 0 THEN FloatAdd(lon[k], Deg(360)) ELSE lon[k]]

\* lines 209-218: the two legs of element k
tri_leg(lon_mesh, lat_mesh, dep_mesh, v, k) ==
    <<deg2rad(lon_mesh[v][k] - lon_mesh[1][k]),
      deg2rad(lat_mesh[v][k] - lat_mesh[1][k]),
      (One + DepthFraction(dep_mesh[v][k])) - (One + DepthFraction(dep_mesh[1][k]))>>

\* np.cross
cross(a, b) ==
    <<a[2] * b[3] - a[3] * b[2], a[3] * b[1] - a[1] * b[3], a[1] * b[2] - a[2] * b[1]>>

\* np.linalg.norm, in tenths
norm(n) == sqrt10(n[1] * n[1] + n[2] * n[2] + n[3] * n[3])

\* line 222
StrikeOf(azimuth) == wrap2360(Map1(LAMBDA a : -rad2deg(a), azimuth))

\* DipOf without line 224
DipOfNoReflect(elevation) == Map1(LAMBDA e : Deg(90) - rad2deg(e), elevation)

\* lines 223-224
DipOf(elevation) ==
    LET dip == Map1(LAMBDA e : Deg(90) - rad2deg(e), elevation)
    IN  Map1(LAMBDA d : IF d > Deg(90) THEN Deg(180) - d ELSE d, dip)

\* lines 209-224
Geometry(lon_mesh, lat_mesh, dep_mesh) ==
    LET els      == DOMAIN lon_mesh[1]
        norm_vec == [k \in els |-> cross(tri_leg(lon_mesh, lat_mesh, dep_mesh, 2, k),
                                         tri_leg(lon_mesh, lat_mesh, dep_mesh, 3, k))]
        sph      == [k \in els |-> cart2sph(norm_vec[k][1], norm_vec[k][2], norm_vec[k][3])]
    IN  [norm_vec |-> norm_vec,
         tri_area |-> [k \in els |-> norm(norm_vec[k])],
         strike   |-> StrikeOf([k \in els |-> sph[k].azimuth]),
         dip      |-> DipOf([k \in els |-> sph[k].elevation])]

\* lines 192-228: the locals before the loop over the groups
MeshGeometry(meshes) ==
    LET a   == MeshArrays(meshes)
        lon == Map1(WrapMeshLon, a.lon_mesh)
        g   == Geometry(lon, a.lat_mesh, a.dep_mesh)
        mesh_list == unique(a.mesh_idx)
    IN  [meshes   |-> meshes,
         lon_mesh |-> lon,
         lat_mesh |-> a.lat_mesh,
         dep_mesh |-> a.dep_mesh,
         mesh_idx |-> a.mesh_idx,
         norm_vec |-> g.norm_vec,
         tri_area |-> g.tri_area,
         strike   |-> g.strike,
         dip      |-> g.dip,
         mesh_list |-> mesh_list,
         proj_mesh_flag |-> [k \in DOMAIN mesh_list |-> 0],
         next     |-> 1]

\* line 230
this_mesh_els(mesh_idx, i) == [k \in DOMAIN mesh_idx |-> mesh_idx[k] = i]

\* lines 231-232
IsSteep(dip, els) == MeanExceeds(Masked(dip, els), Deg(75))

\* line 233: proj_mesh_flag[i] = 1 indexes by the group id; an id outside
\* -n .. n-1 raises IndexError, a negative id counts from the end
FlagIndexOk(mesh_list, i) == -Len(mesh_list) <= i /\ i < Len(mesh_list)

FlagIndex(mesh_list, i) == IF i < 0 THEN Len(mesh_list) + i + 1 ELSE i + 1

\* line 234
DipDir(strike, els) ==
    mean(Map1(LAMBDA s : deg2rad(s + Deg(90)), Masked(strike, els)))

\* np.sin(dip_dir) * np.rad2deg(np.abs(KM2M * dep / RADIUS_EARTH)), with the
\* sine or cosine given in thousandths
Offset(trig, dep) == DivRound(trig * rad2deg(Abs(DepthFraction(dep))), 1000)

\* OffsetDepth reading dep1_mesh for every vertex
OffsetDepthFirst(dep_mesh, v) == dep_mesh[1]

\* the depth column an offset of vertex v reads
OffsetDepth(dep_mesh, v) == dep_mesh[v]

\* AddOffset with the mask left out: coord += trig * rad2deg(|...dep...|)
AddOffsetAll(coord, els, trig, dep) ==
    [k \in DOMAIN coord |-> FloatAdd(coord[k], Offset(trig, dep[k]))]

\* lines 235-252: coord[els] += trig * rad2deg(|KM2M * dep[els] / RADIUS_EARTH|)
AddOffset(coord, els, trig, dep) ==
    [k \in DOMAIN coord |->
        IF els[k] THEN FloatAdd(coord[k], Offset(trig, dep[k])) ELSE coord[k]]

\* lines 230-252: one pass of the loop body, for the group i.  The lat
\* arrays are the columns of the table, so the table changes with them.
SteepDipGroup(f, i) ==
    LET els == this_mesh_els(f.mesh_idx, i)
    IN  IF ~IsSteep(f.dip, els) THEN [ok |-> TRUE, f |-> [f EXCEPT !.next = @ + 1]]
        ELSE IF ~FlagIndexOk(f.mesh_list, i) THEN [ok |-> FALSE, f |-> f]
        ELSE LET dip_dir == DipDir(f.strike, els)
                 lon == [v \in 1..3 |-> AddOffset(f.lon_mesh[v], els, sin(dip_dir),
                                                  OffsetDepth(f.dep_mesh, v))]
                 lat == [v \in 1..3 |-> AddOffset(f.lat_mesh[v], els, cos(dip_dir),
                                                  OffsetDepth(f.dep_mesh, v))]
             IN  [ok |-> TRUE,
                  f  |-> [f EXCEPT
                            !.proj_mesh_flag[FlagIndex(f.mesh_list, i)] = 1,
                            !.lon_mesh = lon,
                            !.lat_mesh = lat,
                            !.meshes = [@ EXCEPT !.lat1 = lat[1], !.lat2 = lat[2],
                                                 !.lat3 = lat[3]],
                            !.next = @ + 1]]

\* lines 229-252: the whole loop, over mesh_list from position f.next on
RECURSIVE SteepDipLoop(_)
SteepDipLoop(f) ==
    IF f.next > Len(f.mesh_list) THEN [ok |-> TRUE, f |-> f]
    ELSE LET r == SteepDipGroup(f, f.mesh_list[f.next])
         IN  IF r.ok THEN SteepDipLoop(r.f) ELSE r

\* lines 229-252 with the groups taken in the given order instead of the
\* order of np.unique
RECURSIVE SteepDipInOrder(_, _)
SteepDipInOrder(f, order) ==
    IF order = <<>> THEN [ok |-> TRUE, f |-> f]
    ELSE LET r == SteepDipGroup(f, Head(order))
         IN  IF r.ok THEN SteepDipInOrder(r.f, Tail(order)) ELSE r

\* lines 254-256
ProjectMesh(f) ==
    [v \in 1..3 |-> wgs84_to_web_mercator(f.lon_mesh[v], f.lat_mesh[v])]

-----------------------------------------------------------------------------
(* Inputs: mesh elements and the tables built from them *)

Vertex(lon, lat, dep) == [lon |-> lon, lat |-> lat, dep |-> dep]

\* the triangles the mesh tables are built from, each at 37N
Shape(name) ==
    CASE name = "flat"     -> <<Vertex(-12200, 3700, -10), Vertex(-12190, 3700, -10),
                                Vertex(-12200, 3710, -10)>>
      [] name = "vertical" -> <<Vertex(-12200, 3700, 0), Vertex(-12190, 3700, 0),
                                Vertex(-12195, 3700, -20)>>
      [] name = "dip45"    -> <<Vertex(-12200, 3700, 0), Vertex(-12190, 3700, 0),
                                Vertex(-12200, 3709, -10)>>
      [] name = "reversed" -> <<Vertex(-12200, 3700, 0), Vertex(-12200, 3709, -10),
                                Vertex(-12190, 3700, 0)>>
      [] name = "steep"    -> <<Vertex(-10000, 3700, 0), Vertex(-10000, 3710, 0),
                                Vertex(-9998, 3700, 14)>>
      [] name = "moderate" -> <<Vertex(-12200, 3700, 0), Vertex(-12190, 3700, 0),
                                Vertex(-12200, 3703, -10)>>
      [] name = "line"     -> <<Vertex(-12200, 3700, 0), Vertex(-12190, 3700, -10),
                                Vertex(-12180, 3700, -20)>>
      [] name = "east"     -> <<Vertex(1000, 3700, -5), Vertex(1010, 3700, -5),
                                Vertex(1000, 3710, -5)>>

\* a meshes table from rows <<shape name, mesh_idx>>
MeshTable(rows) ==
    LET col(v, c) == [k \in DOMAIN rows |-> Shape(rows[k][1])[v][c]]
    IN  [lon1 |-> col(1, "lon"), lat1 |-> col(1, "lat"), dep1 |-> col(1, "dep"),
         lon2 |-> col(2, "lon"), lat2 |-> col(2, "lat"), dep2 |-> col(2, "dep"),
         lon3 |-> col(3, "lon"), lat3 |-> col(3, "lat"), dep3 |-> col(3, "dep"),
         mesh_idx |-> [k \in DOMAIN rows |-> rows[k][2]]]

-----------------------------------------------------------------------------
(* The folder on disk: result_viewer/0000000157 holds three csv files.  A  *)
(* file that is absent is NoFile; a table lacks a column when the column   *)
(* is no field of its record.                                              *)

NoFile == [nofile |-> TRUE]

Station(lat) ==
    [lon |-> <<-12200>>, lat |-> <<lat>>,
     model_east_vel_residual |-> <<3>>, model_north_vel_residual |-> <<4>>]

StationNoResidual == [lon |-> <<-12200>>, lat |-> <<3700>>]

Segment(lat2) ==
    [lon1 |-> <<-12200>>, lat1 |-> <<3700>>, lon2 |-> <<-12100>>, lat2 |-> <<lat2>>]

MeshNoIdx ==
    LET t == MeshTable(<<<<"flat", 0>>>>)
    IN  [c \in DOMAIN t \ {"mesh_idx"} |-> t[c]]

Folder(station, segment, meshes) ==
    [station |-> station, segment |-> segment, meshes |-> meshes]

GoodFolder(rows) == Folder(Station(3700), Segment(3800), MeshTable(rows))

\* the contents the folder can have when a load reads it
Folders ==
    { GoodFolder(<<<<"vertical", 0>>, <<"vertical", 0>>>>),
      GoodFolder(<<<<"flat", 0>>, <<"moderate", 1>>>>),
      GoodFolder(<<<<"steep", 0>>, <<"east", 1>>, <<"dip45", 1>>>>),
      GoodFolder(<<<<"line", 0>>, <<"moderate", 0>>>>),
      GoodFolder(<<<<"vertical", 0>>, <<"steep", 2>>>>),
      GoodFolder(<<<<"reversed", 1>>>>),
      Folder(Station(9500), Segment(3800), MeshTable(<<<<"flat", 0>>>>)),
      Folder(Station(3700), Segment(-9000), MeshTable(<<<<"flat", 0>>>>)),
      Folder(NoFile, Segment(3800), MeshTable(<<<<"flat", 0>>>>)),
      Folder(Station(3700), NoFile, MeshTable(<<<<"flat", 0>>>>)),
      Folder(Station(3700), Segment(3800), NoFile),
      Folder(StationNoResidual, Segment(3800), MeshTable(<<<<"flat", 0>>>>)),
      Folder(Station(3700), Segment(3800), MeshNoIdx) }

-----------------------------------------------------------------------------
(* _load_data, core.py lines 156-286 *)

NoneData == [none |-> TRUE]

NoFrame == [idle |-> TRUE]

Slots == {1, 2}

\* lines 168-170: three pd.read_csv calls in a row; the first absent file
\* raises FileNotFoundError.  nread counts the calls made.
ReadTables(folder) ==
    IF "nofile" \in DOMAIN folder.station THEN [ok |-> FALSE, nread |-> 1]
    ELSE IF "nofile" \in DOMAIN folder.segment THEN [ok |-> FALSE, nread |-> 2]
    ELSE IF "nofile" \in DOMAIN folder.meshes THEN [ok |-> FALSE, nread |-> 3]
    ELSE [ok |-> TRUE, nread |-> 3]

\* lines 173-176
ResidualMagnitude(station) ==
    [k \in DOMAIN station.lon |->
        sqrt10(station.model_east_vel_residual[k] * station.model_east_vel_residual[k]
               + station.model_north_vel_residual[k] * station.model_north_vel_residual[k])]

\* lines 173-189: a column that is absent raises AttributeError
StationSegment(station, segment) ==
    IF ~(StationColumns \subseteq DOMAIN station) \/ ~(SegmentColumns \subseteq DOMAIN segment)
    THEN [ok |-> FALSE]
    ELSE [ok    |-> TRUE,
          resmag |-> ResidualMagnitude(station),
          xy_station |-> wgs84_to_web_mercator(station.lon, station.lat),
          xy1_seg |-> wgs84_to_web_mercator(segment.lon1, segment.lat1),
          xy2_seg |-> wgs84_to_web_mercator(segment.lon2, segment.lat2)]

\* lines 258-276: the dict stored for the slot
Dataset(f) ==
    LET xy == ProjectMesh(f)
    IN  [station   |-> f.station,
         segment   |-> f.segment,
         meshes    |-> f.meshes,
         resmag    |-> f.resmag,
         x_station |-> f.xy_station.x, y_station |-> f.xy_station.y,
         x1_seg    |-> f.xy1_seg.x,    y1_seg    |-> f.xy1_seg.y,
         x2_seg    |-> f.xy2_seg.x,    y2_seg    |-> f.xy2_seg.y,
         x1_mesh   |-> xy[1].x,        y1_mesh   |-> xy[1].y,
         x2_mesh   |-> xy[2].x,        y2_mesh   |-> xy[2].y,
         x3_mesh   |-> xy[3].x,        y3_mesh   |-> xy[3].y]

\* Publish as an update of the dict already in the slot
PublishInPlace(old, data) ==
    IF old = NoneData THEN data ELSE [old EXCEPT !.meshes = data.meshes]

\* lines 278-281: self.folder_N_data = data, one assignment of the reference
Publish(old, data) == data

\* DataAfterFailure with a handler that clears the slot
DataAfterFailureCleared(data, n) == [data EXCEPT ![n] = NoneData]

\* an exception leaves _load_data through no handler: nothing is assigned
DataAfterFailure(data, n) == data

\* lines 156-286 from the first read to the dict, for one content of the folder
LoadResult(folder) ==
    LET t == ReadTables(folder)
        r == StationSegment(folder.station, folder.segment)
        m == SteepDipLoop(MeshGeometry(folder.meshes))
    IN  IF ~t.ok \/ ~r.ok \/ ~(MeshColumns \subseteq DOMAIN folder.meshes) \/ ~m.ok
        THEN [ok |-> FALSE]
        ELSE [ok |-> TRUE,
              data |-> Dataset([station |-> folder.station, segment |-> folder.segment,
                                resmag |-> r.resmag, xy_station |-> r.xy_station,
                                xy1_seg |-> r.xy1_seg, xy2_seg |-> r.xy2_seg] @@ m.f)]

-----------------------------------------------------------------------------
(* The application: two slots, one control thread, a reader of slot 1 *)

NoValue == [unset |-> TRUE]

Init ==
    /\ folder_path = [n \in Slots |-> "---"]
    /\ folder_data = [n \in Slots |-> NoneData]
    /\ pc = "idle"
    /\ frame = NoFrame
    /\ outcome = [status |-> "none"]
    /\ seen = NoneData
    /\ snapshot = [n \in Slots |-> NoneData]
    /\ arg = NoValue
    /\ res = NoValue

\* an exception propagates out of _load_data
Raise(error, nread) ==
    /\ pc' = "idle"
    /\ frame' = NoFrame
    /\ outcome' = [status |-> "failed", error |-> error, nread |-> nread,
                   folder_number |-> frame.folder_number]
    /\ folder_data' = DataAfterFailure(folder_data, frame.folder_number)
    /\ UNCHANGED <<folder_path, seen, snapshot, arg, res>>

\* load_folder_1, load_folder_2 (lines 288-296) and lines 156-165
load_folder(n) ==
    /\ pc = "idle"
    /\ pc' = "read"
    /\ folder_path' = [folder_path EXCEPT ![n] = "0000000157"]
    /\ frame' = [folder_number |-> n]
    /\ snapshot' = folder_data
    /\ outcome' = [status |-> "running"]
    /\ UNCHANGED <<folder_data, seen, arg, res>>

\* lines 167-170
ReadCsv ==
    /\ pc = "read"
    /\ \E folder \in Folders :
         LET r == ReadTables(folder)
         IN  IF r.ok
             THEN /\ pc' = "station"
                  /\ frame' = [folder_number |-> frame.folder_number,
                               folder  |-> folder,
                               nread   |-> r.nread,
                               station |-> folder.station,
                               segment |-> folder.segment,
                               meshes  |-> folder.meshes]
                  /\ UNCHANGED <<folder_path, folder_data, outcome, seen, snapshot, arg, res>>
             ELSE Raise("FileNotFoundError", r.nread)

\* lines 172-189
StationAndSegment ==
    /\ pc = "station"
    /\ LET r == StationSegment(frame.station, frame.segment)
       IN  IF r.ok
           THEN /\ pc' = "meshes"
                /\ frame' = [resmag |-> r.resmag, xy_station |-> r.xy_station,
                             xy1_seg |-> r.xy1_seg, xy2_seg |-> r.xy2_seg] @@ frame
                /\ UNCHANGED <<folder_path, folder_data, outcome, seen, snapshot, arg, res>>
           ELSE Raise("AttributeError", frame.nread)

\* lines 191-228; a column that is absent raises KeyError
Meshes ==
    /\ pc = "meshes"
    /\ IF MeshColumns \subseteq DOMAIN frame.meshes
       THEN /\ pc' = "steep"
            /\ frame' = MeshGeometry(frame.meshes) @@ frame
            /\ UNCHANGED <<folder_path, folder_data, outcome, seen, snapshot, arg, res>>
       ELSE Raise("KeyError", frame.nread)

\* lines 229-252, one pass of the loop
SteepDip ==
    /\ pc = "steep"
    /\ frame.next <= Len(frame.mesh_list)
    /\ LET r == SteepDipGroup(frame, frame.mesh_list[frame.next])
       IN  IF r.ok
           THEN /\ frame' = r.f
                /\ UNCHANGED <<folder_path, folder_data, pc, outcome, seen, snapshot, arg, res>>
           ELSE Raise("IndexError", frame.nread)

\* lines 254-281
Store ==
    /\ pc = "steep"
    /\ frame.next > Len(frame.mesh_list)
    /\ pc' = "update"
    /\ folder_data' = [folder_data EXCEPT
                         ![frame.folder_number] = Publish(@, Dataset(frame))]
    /\ UNCHANGED <<folder_path, frame, outcome, seen, snapshot, arg, res>>

\* lines 283-286: _update_layers (a stub, lines 298-302) and the print
Finish ==
    /\ pc = "update"
    /\ pc' = "idle"
    /\ frame' = NoFrame
    /\ outcome' = [status |-> "ok", folder_number |-> frame.folder_number,
                   folder |-> frame.folder]
    /\ UNCHANGED <<folder_path, folder_data, seen, snapshot, arg, res>>

\* a consumer reads the reference self.folder_1_data
Reader ==
    /\ seen' = folder_data[1]
    /\ UNCHANGED <<folder_path, folder_data, pc, frame, outcome, snapshot, arg, res>>

Next ==
    \/ \E n \in Slots : load_folder(n)
    \/ ReadCsv
    \/ StationAndSegment
    \/ Meshes
    \/ SteepDip
    \/ Store
    \/ Finish
    \/ Reader

Spec == Init /\ [][Next]_vars

-----------------------------------------------------------------------------
(* wrap2360 on its own: every representable longitude within MaxWrapDeg   *)
(* degrees of zero, a hundredth of a degree to either side of each whole   *)
(* degree; res holds the results of applying it once and twice.            *)

MaxWrapDeg == 400

LonInputs ==
    {v \in {Deg(d) + e : d \in -MaxWrapDeg..MaxWrapDeg, e \in -1..1} : FloatRound(v) = v}

InitUtility(inputs, empty) ==
    /\ folder_path = [n \in Slots |-> "---"]
    /\ folder_data = [n \in Slots |-> NoneData]
    /\ pc = "idle"
    /\ frame = NoFrame
    /\ outcome = [status |-> "none"]
    /\ seen = NoneData
    /\ snapshot = [n \in Slots |-> NoneData]
    /\ arg \in inputs
    /\ res = empty

app_vars == <<folder_path, folder_data, pc, frame, outcome, seen, snapshot>>

InitWrap == InitUtility({[lon |-> v] : v \in LonInputs}, <<>>)

ApplyWrap ==
    /\ Len(res) < 2
    /\ LET lon == IF res = <<>> THEN arg.lon ELSE res[Len(res)]
       IN  res' = Append(res, wrap2360(<<lon>>)[1])
    /\ UNCHANGED <<app_vars, arg>>

SpecWrap == InitWrap /\ [][ApplyWrap]_vars

-----------------------------------------------------------------------------
(* Strike and dip of one element, lines 221-224: from a normal vector with *)
(* components up to MaxNormal, and the strike from every azimuth cart2sph  *)
(* can return.                                                             *)

MaxNormal == 3

Normals == {<<x, y, z>> : x \in -MaxNormal..MaxNormal, y \in -MaxNormal..MaxNormal,
                          z \in -MaxNormal..MaxNormal}

Azimuths == -35999..36000

InitGeom ==
    InitUtility({[normal |-> n] : n \in Normals} \cup {[azimuth |-> a] : a \in Azimuths},
                NoValue)

NormalToStrikeDip ==
    /\ "normal" \in DOMAIN arg
    /\ res = NoValue
    /\ LET sph == cart2sph(arg.normal[1], arg.normal[2], arg.normal[3])
       IN  res' = [azimuth |-> sph.azimuth, elevation |-> sph.elevation,
                   strike |-> StrikeOf(<<sph.azimuth>>)[1],
                   dip |-> DipOf(<<sph.elevation>>)[1]]
    /\ UNCHANGED <<app_vars, arg>>

AzimuthToStrike ==
    /\ "azimuth" \in DOMAIN arg
    /\ res = NoValue
    /\ res' = [azimuth |-> arg.azimuth, strike |-> StrikeOf(<<arg.azimuth>>)[1]]
    /\ UNCHANGED <<app_vars, arg>>

NextGeom == NormalToStrikeDip \/ AzimuthToStrike

SpecGeom == InitGeom /\ [][NextGeom]_vars

-----------------------------------------------------------------------------
(* The mesh part of _load_data on its own, lines 191-252: the meshes       *)
(* tables of up to MaxEls rows, each row one of SteepShapes with a         *)
(* mesh_idx in MeshIds.                                                    *)

MaxEls == 3

MaxMeshIdx == 1

SteepShapes == <<"flat", "vertical", "dip45", "steep", "moderate", "line">>

MeshIds == -1..MaxMeshIdx

\* the rows of a table are taken in one order, by shape and then by
\* mesh_idx (so the rows of a group need not be neighbours): every step of
\* lines 191-252 works row by row or under a mask of rows
RowsInOrder(rows) ==
    \A k \in 1..(Len(rows) - 1) :
        \/ rows[k][1] < rows[k + 1][1]
        \/ rows[k][1] = rows[k + 1][1] /\ rows[k][2] <= rows[k + 1][2]

MeshInputs ==
    {[k \in DOMAIN rows |-> <<SteepShapes[rows[k][1]], rows[k][2]>>] :
        rows \in {r \in UNION {[1..n -> (DOMAIN SteepShapes) \X MeshIds] : n \in 1..MaxEls} :
                    RowsInOrder(r)}}

InitSteep == InitUtility({[meshes |-> MeshTable(rows)] : rows \in MeshInputs}, NoValue)

ProjectSteepMeshes ==
    /\ res = NoValue
    /\ LET before == MeshGeometry(arg.meshes)
           r      == SteepDipLoop(before)
       IN  res' = [ok |-> r.ok, before |-> before, after |-> r.f]
    /\ UNCHANGED <<app_vars, arg>>

SpecSteep == InitSteep /\ [][ProjectSteepMeshes]_vars

-----------------------------------------------------------------------------
(* The loop of lines 229-252 over the groups in every order: the meshes    *)
(* tables of up to MaxEls rows of OrderShapes, with every permutation of   *)
(* their mesh_list.                                                        *)

OrderShapes == <<"flat", "vertical", "steep">>

GroupOrders(seq) ==
    {o \in [DOMAIN seq -> {seq[p] : p \in DOMAIN seq}] :
        \A p, q \in DOMAIN seq : p # q => o[p] # o[q]}

OrderTables ==
    {MeshTable([k \in DOMAIN rows |-> <<OrderShapes[rows[k][1]], rows[k][2]>>]) :
        rows \in {r \in UNION {[1..n -> (DOMAIN OrderShapes) \X MeshIds] : n \in 1..MaxEls} :
                    RowsInOrder(r)}}

OrderInputs ==
    UNION {{[meshes |-> t, order |-> o] : o \in GroupOrders(unique(t.mesh_idx))} :
            t \in OrderTables}

InitOrder == InitUtility(OrderInputs, NoValue)

ProjectInOrder ==
    /\ res = NoValue
    /\ LET before == MeshGeometry(arg.meshes)
       IN  res' = [before |-> before,
                   sorted |-> SteepDipLoop(before),
                   ordered |-> SteepDipInOrder(before, arg.order)]
    /\ UNCHANGED <<app_vars, arg>>

SpecOrder == InitOrder /\ [][ProjectInOrder]_vars

-----------------------------------------------------------------------------
(* Claims *)

\* C1: a load that fails, at whichever step, leaves folder_1_data and
\* folder_2_data as they were when the load started, and has read each
\* table at most once (no retry).
C1_FailedLoadKeepsData ==
    (pc = "idle" /\ outcome.status = "failed")
        => (folder_data = snapshot /\ outcome.nread <= 3)

\* C1 witness: a load into a slot that holds a dataset has failed inside the
\* steep-dip loop
C1_Witness ==
    /\ pc = "idle"
    /\ outcome.status = "failed"
    /\ outcome.error = "IndexError"
    /\ folder_data[outcome.folder_number] # NoneData

CompleteDatasets ==
    {NoneData} \cup {LoadResult(folder).data : folder \in {g \in Folders : LoadResult(g).ok}}

\* C2: what a reader of slot 1 observes, and what either slot holds, is at
\* every moment nothing or the whole dataset of one load, never a mixture.
C2_ReaderSeesWholeDataset ==
    /\ seen \in CompleteDatasets
    /\ \A n \in Slots : folder_data[n] \in CompleteDatasets

\* C2 witness: slot 1 holds a dataset the reader has observed while a
\* second load of slot 1, with another mesh table, has projected a group
C2_Witness ==
    /\ pc = "steep"
    /\ frame.folder_number = 1
    /\ folder_data[1] # NoneData
    /\ seen = folder_data[1]
    /\ frame.folder.meshes # folder_data[1].meshes
    /\ \E k \in DOMAIN frame.proj_mesh_flag : frame.proj_mesh_flag[k] = 1

\* C4: for every normal vector, the zero vector and the downward normals
\* included, the dip (90 minus the elevation of the normal, reflected to
\* 180 minus dip when above 90) lies in the closed interval [0, 90].
C4_DipInRange ==
    "dip" \in DOMAIN res => (0 <= res.dip /\ res.dip <= Deg(90))

\* C4 witness: a downward normal, whose dip has been reflected
C4_Witness ==
    /\ "dip" \in DOMAIN res
    /\ arg.normal[3] < 0
    /\ res.elevation < 0
    /\ Deg(90) - rad2deg(res.elevation) > Deg(90)
    /\ res.dip = Deg(180) - (Deg(90) - rad2deg(res.elevation))
    /\ res.dip < Deg(90)

GroupEls(i) == this_mesh_els(res.before.mesh_idx, i)

\* some vertex of the group i has another longitude or latitude after the
\* steep-dip step than before it
GroupMoved(i) ==
    \E k \in DOMAIN res.before.mesh_idx, v \in 1..3 :
        /\ GroupEls(i)[k]
        /\ \/ res.after.lon_mesh[v][k] # res.before.lon_mesh[v][k]
           \/ res.after.lat_mesh[v][k] # res.before.lat_mesh[v][k]

GroupIds == {res.before.mesh_list[p] : p \in DOMAIN res.before.mesh_list}

\* C3: in the steep-dip step a mesh_idx group is projected, its vertex
\* coordinates change, exactly when the mean of its elements' dips is
\* strictly greater than 75.
C3_ProjectedIffSteep ==
    res # NoValue =>
        \A i \in GroupIds : GroupMoved(i) <=> IsSteep(res.before.dip, GroupEls(i))

\* C3 restricted to the tables whose loop runs to its end
C3_ProjectedIffSteepWhenCompleted ==
    (res # NoValue /\ res.ok) =>
        \A i \in GroupIds : GroupMoved(i) <=> IsSteep(res.before.dip, GroupEls(i))

\* an element whose normal has zero area
Degenerate(k) == res.before.norm_vec[k] = <<0, 0, 0>>

\* the elements of the group i that are not degenerate
SoundEls(i) == [k \in DOMAIN res.before.mesh_idx |-> GroupEls(i)[k] /\ ~Degenerate(k)]

\* C8: an element with collinear vertices is excluded from the mean dip of
\* its group, so that a group is projected exactly when the mean dip of its
\* other elements is above 75, and the loop does not abort on it.
C8_DegenerateExcluded ==
    (res # NoValue /\ res.ok) =>
        \A i \in GroupIds :
            (\E k \in DOMAIN SoundEls(i) : SoundEls(i)[k])
                => (GroupMoved(i) <=> IsSteep(res.before.dip, SoundEls(i)))

\* the groups the loop has passed: all of them when it ran to its end
DoneGroups == {res.before.mesh_list[p] : p \in 1..(res.after.next - 1)}

\* the groups the loop has projected
ProjectedGroups == {i \in DoneGroups : IsSteep(res.before.dip, GroupEls(i))}

\* the vertices <<v, k>> of the elements of group i
GroupVertices(i) == {vk \in (1..3) \X DOMAIN res.before.mesh_idx : GroupEls(i)[vk[2]]}

VertexDepth(vk) == res.before.dep_mesh[vk[1]][vk[2]]

LatShift(vk) == res.after.lat_mesh[vk[1]][vk[2]] - res.before.lat_mesh[vk[1]][vk[2]]

\* C10: in a projected group every vertex is displaced by its own depth:
\* its longitude by sin(dip_dir) times and its latitude by cos(dip_dir)
\* times rad2deg(|depth_km * 1000 / 6371000|), dip_dir being one value for
\* the group; a vertex at depth 0 stays where it is, two vertices of
\* opposite depths get the same latitude shift, and of two vertices of the
\* group the one with the larger |depth| is shifted at least as far.
C10_OwnDepthDisplacement ==
    res # NoValue =>
        \A i \in ProjectedGroups :
            LET dip_dir == DipDir(res.before.strike, GroupEls(i))
            IN  \A vk \in GroupVertices(i) :
                    /\ res.after.lon_mesh[vk[1]][vk[2]]
                         = FloatAdd(res.before.lon_mesh[vk[1]][vk[2]],
                                    Offset(sin(dip_dir), VertexDepth(vk)))
                    /\ res.after.lat_mesh[vk[1]][vk[2]]
                         = FloatAdd(res.before.lat_mesh[vk[1]][vk[2]],
                                    Offset(cos(dip_dir), VertexDepth(vk)))
                    /\ VertexDepth(vk) = 0 =>
                         /\ res.after.lon_mesh[vk[1]][vk[2]] = res.before.lon_mesh[vk[1]][vk[2]]
                         /\ LatShift(vk) = 0
                    /\ \A wj \in GroupVertices(i) :
                         /\ VertexDepth(wj) = -VertexDepth(vk) => LatShift(wj) = LatShift(vk)
                         /\ Abs(VertexDepth(wj)) >= Abs(VertexDepth(vk))
                              => Abs(LatShift(wj)) >= Abs(LatShift(vk))

\* C10 witness: a projected group with vertices at depth 0, above it and
\* below it, the deepest of them shifted in latitude
C10_Witness ==
    /\ res # NoValue
    /\ \E i \in ProjectedGroups :
         /\ \E vk \in GroupVertices(i) : VertexDepth(vk) = 0
         /\ \E vk \in GroupVertices(i) : VertexDepth(vk) > 0
         /\ \E vk \in GroupVertices(i) : VertexDepth(vk) < 0 /\ LatShift(vk) # 0
         /\ \E vk, wj \in GroupVertices(i) :
              VertexDepth(vk) # VertexDepth(wj) /\ vk[1] # wj[1] /\ vk[2] = wj[2]

\* every latitude of the tables of a folder lies in [-90, 90]
LatitudesInRange(folder) ==
    \A lat \in {folder.station.lat, folder.segment.lat1, folder.segment.lat2,
                folder.meshes.lat1, folder.meshes.lat2, folder.meshes.lat3} :
        \A k \in DOMAIN lat : -Deg(90) <= lat[k] /\ lat[k] <= Deg(90)

\* C7: a load whose station, segment or mesh table holds a latitude outside
\* [-90, 90] fails with a DomainError and stores no dataset: a load that
\* has stored its dataset, or has ended without a failure, read latitudes
\* in range only.
C7_OutOfRangeLatitudeFails ==
    /\ pc = "update" => LatitudesInRange(frame.folder)
    /\ (pc = "idle" /\ outcome.status = "ok") => LatitudesInRange(outcome.folder)

\* C9: after a successful load the dataset of the slot holds, row by row
\* with the mesh table, the strike, the dip and the mesh_idx of every
\* triangle, with the planar station points, the residual magnitude and the
\* planar segment endpoints.
C9_DatasetExposesStrikeDip ==
    \A n \in Slots :
        folder_data[n] # NoneData =>
            /\ {"resmag", "x_station", "y_station",
                "x1_seg", "y1_seg", "x2_seg", "y2_seg"} \subseteq DOMAIN folder_data[n]
            /\ "mesh_idx" \in DOMAIN folder_data[n].meshes
            /\ {"strike", "dip"} \subseteq DOMAIN folder_data[n]
            /\ Len(folder_data[n].strike) = Len(folder_data[n].meshes.mesh_idx)
            /\ Len(folder_data[n].dip) = Len(folder_data[n].meshes.mesh_idx)

\* C9 without strike and dip: what the dataset does hold
C9_DatasetOtherAttributes ==
    \A n \in Slots :
        folder_data[n] # NoneData =>
            /\ {"resmag", "x_station", "y_station",
                "x1_seg", "y1_seg", "x2_seg", "y2_seg"} \subseteq DOMAIN folder_data[n]
            /\ "mesh_idx" \in DOMAIN folder_data[n].meshes

\* C11: the loop over the groups has no ordering dependency: taken in any
\* order of the groups it ends the same way as in the order of np.unique,
\* and when it runs to its end it leaves the same vertex longitudes and
\* latitudes, in the arrays and in the table.
C11_GroupOrderIndependent ==
    res # NoValue =>
        /\ res.ordered.ok = res.sorted.ok
        /\ res.sorted.ok =>
             /\ res.ordered.f.lon_mesh = res.sorted.f.lon_mesh
             /\ res.ordered.f.lat_mesh = res.sorted.f.lat_mesh
             /\ res.ordered.f.meshes = res.sorted.f.meshes

\* C11 witness: two groups, both projected, taken in the reverse of the
\* order of np.unique
C11_Witness ==
    /\ res # NoValue
    /\ res.sorted.ok
    /\ Len(arg.order) >= 2
    /\ arg.order[1] = res.before.mesh_list[Len(arg.order)]
    /\ \E k, j \in DOMAIN res.before.mesh_idx :
         /\ res.before.mesh_idx[k] # res.before.mesh_idx[j]
         /\ res.sorted.f.lat_mesh[3][k] # res.before.lat_mesh[3][k]
         /\ res.sorted.f.lon_mesh[3][j] # res.before.lon_mesh[3][j]

\* the groups, by position in mesh_list, whose entry of proj_mesh_flag is set
FlaggedPositions == {p \in DOMAIN res.after.proj_mesh_flag : res.after.proj_mesh_flag[p] = 1}

\* the groups, by position in mesh_list, whose mean dip exceeds 75
SteepPositions ==
    {p \in DOMAIN res.before.mesh_list :
        IsSteep(res.before.dip, GroupEls(res.before.mesh_list[p]))}

\* C12: for every mesh table, whatever integers its mesh_idx values are,
\* the steep-dip step runs to its end without an indexing failure, and the
\* entries of proj_mesh_flag that are set are those of the groups whose
\* mean dip exceeds 75, each entry standing for its own group.
C12_FlagsForArbitraryIds ==
    res # NoValue => (res.ok /\ FlaggedPositions = SteepPositions)

\* C12 for the tables whose mesh_idx values are 0 .. n-1
C12_FlagsForContiguousIds ==
    (res # NoValue /\ \A p \in DOMAIN res.before.mesh_list : res.before.mesh_list[p] = p - 1)
        => (res.ok /\ FlaggedPositions = SteepPositions)

MeshCoordinateColumns == {"lon1", "lon2", "lon3", "lat1", "lat2", "lat3"}

\* C13: after a successful load the mesh table stored in the dataset holds,
\* for every element, the longitudes and latitudes read from the input.
C13_StoredMeshesKeepInput ==
    pc = "update" =>
        \A c \in MeshCoordinateColumns :
            folder_data[frame.folder_number].meshes[c] = frame.folder.meshes[c]

\* C13 for the longitudes alone
C13_StoredMeshesKeepInputLon ==
    pc = "update" =>
        \A c \in {"lon1", "lon2", "lon3"} :
            folder_data[frame.folder_number].meshes[c] = frame.folder.meshes[c]

\* C14: whenever no load is running, the path shown for a slot is the
\* placeholder "---" exactly when the slot holds no dataset.
C14_PathAgreesWithData ==
    pc = "idle" =>
        \A n \in Slots : (folder_path[n] = "---") <=> (folder_data[n] = NoneData)

\* C14 in one direction: a slot that holds a dataset shows a folder name
C14_DataImpliesPath ==
    \A n \in Slots : folder_data[n] # NoneData => folder_path[n] # "---"

====
